---- MODULE Spec2Model ----
(***************************************************************************)
(* ATS node test executor: flash an ESP32 over a serial port, wait for the *)
(* boot, optionally reset, re-capture the boot log when it is stale, run   *)
(* the external test runner, reconcile its verdict with the captured boot  *)
(* log and write the reports.                                              *)
(*                                                                         *)
(* Time is counted in tenths of a second.  Text (captured bytes, files) is *)
(* a sequence of atoms: each recognised pattern is one atom, "junk" is any *)
(* other text, "bad" is a byte sequence that is not valid UTF-8 and "\n"   *)
(* is a line break.  "p in text" of the code is Contains(text, p).         *)
(***************************************************************************)
EXTENDS Integers, Sequences, FiniteSets, TLC

\* ------------------------------------------------------------------ bounds
\* Durations an esptool.py invocation may take (flash attempt or reset).
ShortDur == 10
LongDur == 50
\* Longest captured byte sequence, in atoms.
MaxCapLen == 1
\* How many times the set of device nodes may change during one run.
MaxHotplug == 1
\* Longest byte sequence (in atoms) given to the evidence store taken by itself.
MaxStoreLen == 2
\* The capture taken by itself: its clock ticks this many times in a tenth of
\* a second, its budget is at most MaxBudget ticks, one read of a chunk takes
\* at most MaxReadLatency ticks.
TicksPerTenth == 2
MaxBudget == 6
MaxReadLatency == 2

\* How long an esptool.py run that writes the flash and ends with status 0 may take.
ToolDur == {ShortDur, LongDur}

\* How long an esptool.py run that fails may take.
FailDur == {ShortDur}

\* ------------------------------------------------------- program constants
\* an attempt budget one too large
MaxAttempts_OneMore == 3 + 1

\* flash_esp32.py: max_attempts
MaxAttempts == 3
Backoff == 20
\* hardware.py
SettleDelay == 20
\* executor.py
BootWait == 30
SecondWait == 20
StaleThreshold == 80
CaptureBudget == 40
Stabilize == 1
PrePause == 5

PortBusySignatures == {"could not open", "Errno 5", "Input/output error", "port is busy"}

\* Error texts the flashing tool may leave on stderr, each as the set of the
\* phrases it contains: one signature alone, a signature inside a longer
\* message, two other failures, and no text at all.
ToolStderr == {{sig} : sig \in PortBusySignatures}
              \cup {{"A fatal error occurred", "could not open"},
                    {"A fatal error occurred", "MD5 of file does not match"},
                    {"Invalid head of packet"}, {}}

\* any error text at all counts as a port error
IsPortError_AnyText(stderr) == stderr # {}

\* is_port_error of flash_firmware
IsPortError(stderr) ==
    \/ "could not open" \in stderr \/ "Errno 5" \in stderr
    \/ "Input/output error" \in stderr \/ "port is busy" \in stderr

\* patterns of test_uart_read_directly and the first list of run_test_runner
BootPatterns == <<"rst:", "ets Jun", "ESP-IDF", "Guru Meditation", "boot:", "I (", "E (", "W (">>

\* boot_patterns of the reconciliation branch of run_test_runner
ReconcilePatterns == <<"rst:", "ets Jun", "ESP-IDF", "boot:", "I (", "E (", "W (">>

Range(s) == {s[i] : i \in DOMAIN s}

Contains(text, p) == \E i \in DOMAIN text : text[i] = p

\* [p for p in patterns if p in text]
FoundPatterns(patterns, text) == SelectSeq(patterns, LAMBDA p : Contains(text, p))

\* bytes.decode('utf-8', errors='ignore'): undecodable bytes are dropped
Decode(bytes) == SelectSeq(bytes, LAMBDA a : a # "bad")

ByteAtoms == Range(BootPatterns) \cup {"junk", "bad"}

RECURSIVE SeqsUpTo(_, _)
SeqsUpTo(S, n) == IF n = 0 THEN {<<>>}
                  ELSE LET shorter == SeqsUpTo(S, n - 1)
                       IN shorter \cup {Append(s, a) : s \in {t \in shorter : Len(t) = n - 1}, a \in S}

\* What the serial line may deliver during one capture.
CaptureInputs == SeqsUpTo(ByteAtoms, MaxCapLen)

\* --------------------------------------------------------------- Port Locator
\* Device nodes that match /dev/ttyUSB* or /dev/ttyACM*, in lexicographic order.
SortedDevNodes == <<"/dev/ttyACM0", "/dev/ttyACM1", "/dev/ttyACM7", "/dev/ttyUSB0", "/dev/ttyUSB1", "/dev/ttyUSB5">>

\* the conventional paths are tried ACM first
PriorityPorts_ACMFirst == <<"/dev/ttyACM0", "/dev/ttyACM1", "/dev/ttyUSB0", "/dev/ttyUSB1">>

\* ports of detect_esp32_port
PriorityPorts == <<"/dev/ttyUSB0", "/dev/ttyUSB1", "/dev/ttyACM0", "/dev/ttyACM1">>

\* sorted(glob('/dev/ttyUSB*') + glob('/dev/ttyACM*'))
SortedGlob(existing) == SelectSeq(SortedDevNodes, LAMBDA p : p \in existing)

\* The value of an environment variable is a sequence of atoms: a path, or
\* white space.  (The values drawn hold at most one path.)
Whitespace == {" ", "\n"}

RECURSIVE LStrip(_)
LStrip(text) ==
    IF Len(text) > 0 /\ Head(text) \in Whitespace THEN LStrip(Tail(text)) ELSE text

RECURSIVE RStrip(_)
RStrip(text) ==
    IF Len(text) > 0 /\ text[Len(text)] \in Whitespace
    THEN RStrip(SubSeq(text, 1, Len(text) - 1)) ELSE text

\* str.strip()
Strip(text) == RStrip(LStrip(text))

\* the path a stripped value names; "" for the empty string
PathOf(text) == IF Len(text) = 0 THEN "" ELSE text[1]

\* detect_esp32_port(); "" stands for None
detect_esp32_port(serial_port, existing) ==
    LET env_port == PathOf(Strip(serial_port))
    IN
    IF env_port # "" /\ env_port \in existing THEN env_port
    ELSE LET prio == SelectSeq(PriorityPorts, LAMBDA p : p \in existing)
             usb_ports == SortedGlob(existing)
         IN IF Len(prio) > 0 THEN prio[1]
            ELSE IF Len(usb_ports) > 0 THEN usb_ports[1]
            ELSE ""

\* Values of SERIAL_PORT a run may be started with.
Overrides == {<<>>}

\* Sets of device nodes a run may see.
DeviceSets == {{}, {"/dev/ttyACM7", "/dev/ttyUSB5"}}

\* -------------------------------------------------------------- Port Recovery
SysfsStates == [port_exists : BOOLEAN, link_exists : BOOLEAN,
                device_dir : {"1-1.2", "1-1.2:1.0", ""},
                unbind_exists : BOOLEAN, bind_exists : BOOLEAN]

\* _get_usb_bus_path_for_tty; "" stands for None
get_usb_bus_path_for_tty(port, sysfs) ==
    IF port = "" \/ ~sysfs.port_exists THEN ""
    ELSE IF ~sysfs.link_exists THEN ""
    ELSE sysfs.device_dir

\* ":" in bus_path: the link resolved to an interface, not a device
HasColon(bus_path) == bus_path = "1-1.2:1.0"

\* the bind control file is not looked for
RecoveryResolves_UnbindOnly(port, sysfs) ==
    LET bus_path == get_usb_bus_path_for_tty(port, sysfs)
    IN /\ ~(bus_path = "" \/ HasColon(bus_path))
       /\ sysfs.unbind_exists

\* The guards of try_reset_serial_port before its first write.
RecoveryResolves(port, sysfs) ==
    LET bus_path == get_usb_bus_path_for_tty(port, sysfs)
    IN /\ ~(bus_path = "" \/ HasColon(bus_path))
       /\ ~(~sysfs.unbind_exists \/ ~sysfs.bind_exists)

\* ------------------------------------------------------------------- state
VARIABLES
    pc,               \* position of the process
    now,              \* the clock, tenths of a second
    env_port,         \* SERIAL_PORT
    existing,         \* device nodes that exist
    hotplugs,         \* changes of `existing` so far
    device_target,    \* manifest['device']['target']
    exit_code,        \* main: exit_code
    flash_start_time, \* main: flash_start_time, -1 for None
    flash_end_time,   \* main: flash_end_time, -1 while unset
    fl,               \* flash_firmware's frame
    rec,              \* try_reset_serial_port's frame
    ser_open,         \* serial channels this process holds open
    tool_running,     \* an esptool.py subprocess holds the port
    events,           \* what the run has done so far, in order
    process_exit,     \* the process's exit status, -1 while it runs
    port,             \* main: port, "" for None
    reset_success,    \* main: reset_success
    baud_idx,         \* main: position of the flush loop in its baud list
    boot_log,         \* the file <results_dir>/boot_messages.log
    cap,              \* test_uart_read_directly's frame and return value
    boot_messages_file, \* main: boot_messages_file is set (not None)
    tr,               \* run_test_runner's frame
    tests,            \* main: tests
    reports,          \* the report files written so far
    runner_script     \* the file ats-test-esp32-demo/agent/run_tests.sh

envVars == <<env_port, existing, hotplugs, device_target>>
mainVars == <<exit_code, flash_start_time, flash_end_time>>
flashVars == <<fl, rec>>
orchVars == <<port, reset_success, baud_idx, boot_log, cap, boot_messages_file, tr, tests, reports, runner_script>>
vars == <<pc, now, envVars, mainVars, flashVars, ser_open, tool_running, events,
          process_exit, orchVars>>

\* flash_firmware's locals, with what it has done so far, in order (trace): the
\* pre-check, each start of the tool ("tool") and how it ended ("ok", "busy" for
\* an error text with a port-busy signature, "fatal" for any other), each call
\* of try_reset_serial_port ("recovery") and the return
NoFrame == [port |-> "", firmware_exists |-> FALSE, attempt |-> 0, stderr |-> {},
            result |-> "none", trace |-> <<>>]

\* try_reset_serial_port's locals, with its writes to unbind and bind in order
NoSysfs == [port_exists |-> FALSE, link_exists |-> FALSE, device_dir |-> "",
            unbind_exists |-> FALSE, bind_exists |-> FALSE]
NoRec == [port |-> "", sysfs |-> NoSysfs, entered |-> 0, bus_path |-> "",
          writes |-> <<>>, result |-> "none"]

\* An optional text: None, or a string
None == [some |-> FALSE, val |-> <<>>]
Some(text) == [some |-> TRUE, val |-> text]
\* Python's truth value of an optional text
Truthy(opt) == opt.some /\ Len(opt.val) > 0

NoFile == [exists |-> FALSE, data |-> <<>>, origin |-> "none"]

\* boot_messages.log as a previous run may have left it
PrevLogs == {NoFile,
             [exists |-> TRUE, data |-> <<>>, origin |-> "prev"],
             [exists |-> TRUE, data |-> <<"rst:", "\n">>, origin |-> "prev"],
             [exists |-> TRUE, data |-> <<"junk", "\n">>, origin |-> "prev"]}

\* test_uart_read_directly's frame: timeout is its budget, entered the time of
\* the call and start_time its start_time (the three are followed only when
\* the capture is taken by itself, in ticks)
NoCap == [found |-> FALSE, text |-> <<>>, raw |-> <<>>, returned |-> FALSE, reset_ok |-> FALSE,
          timeout |-> 0, entered |-> 0, start_time |-> 0]

\* run_test_runner's locals; runner is what test_runner_path.exists() gave
\* ("unchecked" before the test), raised is the text of the exception of
\* subprocess.run ("" for none)
NoTr == [boot_messages_data |-> None, data_origin |-> "none", runner |-> "unchecked",
         ran |-> FALSE, raised |-> "",
         returncode |-> 0, stdout |-> {}, stderr |-> "", tests |-> <<>>, returned |-> FALSE]

\* The test runner script as this run knows it: read_as is its content when
\* the run first read it ("unseen" while it has not), content is its content
\* now.  "original" is a script without the text BOOT_MESSAGES_LOG, "marked"
\* one that holds it already, "patched" the result of the rewriting.  (The
\* copy run_tests.sh.backup is written before the script is; nothing reads it.)
UnseenScript == [read_as |-> "unseen", content |-> "unseen"]

Init ==
    /\ pc = "start"
    /\ now = 0
    /\ env_port \in Overrides
    /\ existing \in DeviceSets
    /\ hotplugs = 0
    /\ device_target \in {"esp32", "stm32"}
    /\ exit_code = 0
    /\ flash_start_time = -1
    /\ flash_end_time = -1
    /\ fl = NoFrame
    /\ rec = NoRec
    /\ ser_open = 0
    /\ tool_running = FALSE
    /\ events = <<>>
    /\ process_exit = -1
    /\ port = ""
    /\ reset_success = FALSE
    /\ baud_idx = 0
    /\ boot_log \in PrevLogs
    /\ cap = NoCap
    /\ boot_messages_file = FALSE
    /\ tr = NoTr
    /\ tests = <<>>
    /\ reports = <<>>
    /\ runner_script = UnseenScript

\* The process has ended: by sys.exit or by an unhandled exception.
Ended == pc \in {"done", "exited", "crashed"}

\* A device node appears or disappears (cable pulled, driver rebound).  Only
\* detect_esp32_port looks at the device nodes, so a change at any moment is
\* the same as a change just before the next lookup.
Hotplug ==
    /\ pc \in {"reset_q", "stale_check"}
    /\ hotplugs < MaxHotplug
    /\ \E e \in DeviceSets : e # existing /\ existing' = e
    /\ hotplugs' = hotplugs + 1
    /\ UNCHANGED <<pc, now, env_port, device_target, mainVars, flashVars,
                   ser_open, tool_running, events, process_exit, orchVars>>

\* ---------------------------------------------------------------------- main
\* every target is taken for an ESP32
TargetRecognized_Any(target) == target \in {"esp32", "stm32"}

\* device_target == 'esp32'
TargetRecognized(target) == target = "esp32"

\* main, up to the call of flash_firmware
Start ==
    /\ pc = "start"
    /\ \E manifest \in {"ok", "unloadable", "field_missing"} :
         CASE manifest = "unloadable" ->
                \* load_manifest raised: sys.exit(1)
                /\ pc' = "exited"
                /\ process_exit' = 1
                /\ UNCHANGED <<mainVars, events>>
           [] manifest = "field_missing" ->
                \* KeyError outside any try
                /\ pc' = "crashed"
                /\ process_exit' = 1
                /\ UNCHANGED <<mainVars, events>>
           [] OTHER ->
                /\ process_exit' = process_exit
                /\ flash_end_time' = flash_end_time
                /\ IF TargetRecognized(device_target)
                   THEN /\ flash_start_time' = now
                        /\ exit_code' = 0
                        /\ events' = Append(events, "flash")
                        /\ pc' = "fl_enter"
                   ELSE /\ flash_start_time' = flash_start_time
                        /\ exit_code' = 1
                        /\ events' = events
                        /\ pc' = "step2"
    /\ UNCHANGED <<now, envVars, flashVars, ser_open, tool_running, orchVars>>

\* ------------------------------------------------------------ flash_firmware
\* range(1, max_attempts + 1)
AttemptRange == 1 .. MaxAttempts

\* attempt < max_attempts and is_port_error
RetryAllowed(attempt, stderr) == attempt < MaxAttempts /\ IsPortError(stderr)

\* recovery on the second attempt instead of the first
RecoveryDue_SecondAttempt(attempt, stderr) == IsPortError(stderr) /\ attempt = 2

\* recovery after every port-busy failure
RecoveryDue_EveryAttempt(attempt, stderr) == IsPortError(stderr)

\* is_port_error and attempt == 1
RecoveryDue(attempt, stderr) == IsPortError(stderr) /\ attempt = 1

\* flash_firmware returns: the frame keeps the result for the caller
FlashReturns(frame, result) ==
    /\ fl' = [frame EXCEPT !.result = result,
                           !.trace = Append(frame.trace, "return")]
    /\ pc' = "fl_return"

\* `continue`: the next attempt of the loop, or the code after the loop
FlashContinues(frame) ==
    IF frame.attempt + 1 \in AttemptRange
    THEN /\ fl' = [frame EXCEPT !.attempt = frame.attempt + 1]
         /\ pc' = "fl_attempt"
    ELSE FlashReturns(frame, "false")

\* the image file is not looked at
FlashPreconditions_PortOnly(located, firmware_exists) == located # ""

\* `if not port: return False` and `if not os.path.exists(firmware_path): return False`
FlashPreconditions(located, firmware_exists) == located # "" /\ firmware_exists

\* port lookup and the firmware check
FlashEnter ==
    /\ pc = "fl_enter"
    /\ \E firmware_exists \in BOOLEAN :
         LET located == detect_esp32_port(env_port, existing)
             frame == [NoFrame EXCEPT !.port = located, !.attempt = 1,
                                      !.firmware_exists = firmware_exists]
         IN IF ~FlashPreconditions(located, firmware_exists)
            THEN FlashReturns(frame, "false")
            ELSE /\ fl' = frame
                 /\ pc' = "fl_precheck"
    /\ UNCHANGED <<now, envVars, mainVars, rec, ser_open, tool_running, events, process_exit, orchVars>>

\* pre-check: serial.Serial(port, 115200) opens, or raises and is ignored
FlashPrecheckOpen ==
    /\ pc = "fl_precheck"
    /\ \E opened \in BOOLEAN :
         IF opened
         THEN /\ ser_open' = ser_open + 1
              /\ fl' = [fl EXCEPT !.trace = Append(fl.trace, "precheck_ok")]
              /\ pc' = "fl_precheck_close"
         ELSE /\ ser_open' = ser_open
              /\ fl' = [fl EXCEPT !.trace = Append(fl.trace, "precheck_failed")]
              /\ pc' = "fl_attempt"
    /\ UNCHANGED <<now, envVars, mainVars, rec, tool_running, events, process_exit, orchVars>>

\* the pre-check's channel is kept
FlashPrecheckClose_KeepsOpen ==
    /\ pc = "fl_precheck_close"
    /\ pc' = "fl_attempt"
    /\ UNCHANGED <<now, envVars, mainVars, flashVars, ser_open, tool_running, events,
                   process_exit, orchVars>>

\* the end of the pre-check's with block
FlashPrecheckClose ==
    /\ pc = "fl_precheck_close"
    /\ ser_open' = ser_open - 1
    /\ pc' = "fl_attempt"
    /\ UNCHANGED <<now, envVars, mainVars, flashVars, tool_running, events, process_exit, orchVars>>

\* subprocess.run(cmd, check=True, ...) starts esptool.py
FlashToolStart ==
    /\ pc = "fl_attempt"
    /\ tool_running' = TRUE
    /\ fl' = [fl EXCEPT !.trace = Append(fl.trace, "tool")]
    /\ pc' = "fl_tool"
    /\ UNCHANGED <<now, envVars, mainVars, rec, ser_open, events, process_exit, orchVars>>

\* esptool.py could not be executed: the exception leaves flash_firmware and main
FlashToolNotRunnable ==
    /\ pc = "fl_tool"
    /\ tool_running' = FALSE
    /\ pc' = "crashed"
    /\ process_exit' = 1
    /\ UNCHANGED <<now, envVars, mainVars, flashVars, ser_open, events, orchVars>>

\* esptool.py exits with status 0
FlashToolSucceeds ==
    /\ pc = "fl_tool"
    /\ \E d \in ToolDur : now' = now + d
    /\ tool_running' = FALSE
    /\ FlashReturns([fl EXCEPT !.trace = Append(fl.trace, "ok")], "true")
    /\ UNCHANGED <<envVars, mainVars, rec, ser_open, events, process_exit, orchVars>>

\* esptool.py exits non-zero: CalledProcessError, classified by its stderr
FlashToolFails ==
    /\ pc = "fl_tool"
    /\ \E d \in FailDur : now' = now + d
    /\ tool_running' = FALSE
    /\ \E stderr \in ToolStderr :
         fl' = [fl EXCEPT !.stderr = stderr,
                          !.trace = Append(fl.trace,
                                IF stderr \cap PortBusySignatures # {}
                                THEN "busy" ELSE "fatal")]
    /\ pc' = "fl_failed"
    /\ UNCHANGED <<envVars, mainVars, rec, ser_open, events, process_exit, orchVars>>

\* the except block: recovery on the first attempt, backoff, or break
FlashHandleFailure ==
    /\ pc = "fl_failed"
    /\ IF RecoveryDue(fl.attempt, fl.stderr)
       THEN /\ rec' = [NoRec EXCEPT !.port = fl.port, !.entered = now]
            /\ fl' = [fl EXCEPT !.trace = Append(fl.trace, "recovery")]
            /\ pc' = "rec_resolve"
            /\ now' = now
       ELSE /\ rec' = rec
            /\ IF RetryAllowed(fl.attempt, fl.stderr)
               THEN /\ now' = now + Backoff
                    /\ FlashContinues(fl)
               ELSE /\ now' = now
                    /\ FlashReturns(fl, "false")
    /\ UNCHANGED <<envVars, mainVars, ser_open, tool_running, events, process_exit, orchVars>>

\* try_reset_serial_port returned to the except block
FlashAfterRecovery ==
    /\ pc = "fl_after_recovery"
    /\ IF rec.result = "true"
       THEN /\ now' = now + Backoff
            /\ FlashContinues(fl)
       ELSE IF RetryAllowed(fl.attempt, fl.stderr)
            THEN /\ now' = now + Backoff
                 /\ FlashContinues(fl)
            ELSE /\ now' = now
                 /\ FlashReturns(fl, "false")
    /\ rec' = NoRec
    /\ UNCHANGED <<envVars, mainVars, ser_open, tool_running, events, process_exit, orchVars>>

\* ----------------------------------------------------- try_reset_serial_port
RecoveryReturns(frame, result) ==
    /\ rec' = [frame EXCEPT !.result = result]
    /\ pc' = "fl_after_recovery"

\* the sysfs lookup and the existence checks
RecoveryResolve ==
    /\ pc = "rec_resolve"
    /\ \E sysfs \in SysfsStates :
         IF RecoveryResolves(rec.port, sysfs)
         THEN /\ rec' = [rec EXCEPT !.sysfs = sysfs,
                                    !.bus_path = get_usb_bus_path_for_tty(rec.port, sysfs)]
              /\ pc' = "rec_unbind"
         ELSE RecoveryReturns([rec EXCEPT !.sysfs = sysfs], "false")
    /\ UNCHANGED <<now, envVars, mainVars, fl, ser_open, tool_running, events,
                   process_exit, orchVars>>

\* write bus_path to unbind and sleep, or OSError
RecoveryUnbind ==
    /\ pc = "rec_unbind"
    /\ \E written \in BOOLEAN :
         IF written
         THEN /\ rec' = [rec EXCEPT !.writes = Append(rec.writes,
                                        [file |-> "unbind", id |-> rec.bus_path])]
              /\ now' = now + SettleDelay
              /\ pc' = "rec_bind"
         ELSE /\ now' = now
              /\ RecoveryReturns(rec, "false")
    /\ UNCHANGED <<envVars, mainVars, fl, ser_open, tool_running, events,
                   process_exit, orchVars>>

\* True is returned after the unbind alone
RecoveryBind_SkipsWrite ==
    /\ pc = "rec_bind"
    /\ now' = now + SettleDelay
    /\ RecoveryReturns(rec, "true")
    /\ UNCHANGED <<envVars, mainVars, fl, ser_open, tool_running, events,
                   process_exit, orchVars>>

\* write bus_path to bind and sleep, or OSError
RecoveryBind ==
    /\ pc = "rec_bind"
    /\ \E written \in BOOLEAN :
         IF written
         THEN /\ now' = now + SettleDelay
              /\ RecoveryReturns([rec EXCEPT !.writes = Append(rec.writes,
                                        [file |-> "bind", id |-> rec.bus_path])], "true")
         ELSE /\ now' = now
              /\ RecoveryReturns(rec, "false")
    /\ UNCHANGED <<envVars, mainVars, fl, ser_open, tool_running, events,
                   process_exit, orchVars>>

\* ------------------------------------------------- main, after flash_firmware
\* `if not flash_firmware(...)`: exit_code = 1, or flash_end_time is taken
FlashReturned ==
    /\ pc = "fl_return"
    /\ IF fl.result = "true"
       THEN /\ flash_end_time' = now
            /\ exit_code' = exit_code
            /\ pc' = "boot_wait"
       ELSE /\ flash_end_time' = flash_end_time
            /\ exit_code' = 1
            /\ pc' = "step2"
    /\ fl' = NoFrame
    /\ UNCHANGED <<now, envVars, flash_start_time, rec, ser_open, tool_running, events, process_exit, orchVars>>

\* the run goes on without sleeping
BootWaitStep_NoDelay ==
    /\ pc = "boot_wait"
    /\ events' = Append(events, "boot_wait")
    /\ pc' = "reset_q"
    /\ UNCHANGED <<now, envVars, mainVars, flashVars, ser_open, tool_running,
                   process_exit, orchVars>>

\* time.sleep(3.0)
BootWaitStep ==
    /\ pc = "boot_wait"
    /\ now' = now + BootWait
    /\ events' = Append(events, "boot_wait")
    /\ pc' = "reset_q"
    /\ UNCHANGED <<envVars, mainVars, flashVars, ser_open, tool_running,
                   process_exit, orchVars>>

\* port = detect_esp32_port(); reset_esp32(port) starts esptool.py if a port is found
ExplicitResetStart ==
    /\ pc = "reset_q"
    /\ port' = detect_esp32_port(env_port, existing)
    /\ IF port' # ""
       THEN /\ tool_running' = TRUE
            /\ events' = Append(events, "explicit_reset")
            /\ pc' = "xreset_run"
       ELSE /\ UNCHANGED <<tool_running, events>>
            /\ pc' = "step2"
    /\ UNCHANGED <<now, envVars, mainVars, flashVars, ser_open, process_exit,
                   reset_success, baud_idx, boot_log, cap, boot_messages_file,
                   tr, tests, reports, runner_script>>

\* How long the esptool.py run of reset_esp32 may take.
ResetDur == {ShortDur}

\* reset_esp32: esptool.py ... run exits; True on status 0, False otherwise
ResetToolExits(ok) ==
    /\ tool_running
    /\ \E d \in ResetDur : now' = now + d
    /\ tool_running' = FALSE

\* the second wait and the flush follow a failed reset too
ExplicitResetDone_AlwaysWaits ==
    /\ pc = "xreset_run"
    /\ \E ok \in BOOLEAN :
         /\ ResetToolExits(ok)
         /\ reset_success' = ok
         /\ pc' = "second_wait"
    /\ UNCHANGED <<envVars, mainVars, flashVars, ser_open, events, process_exit,
                   port, baud_idx, boot_log, cap, boot_messages_file, tr, tests, reports, runner_script>>

\* reset_esp32 returns to the explicit reset step
ExplicitResetDone ==
    /\ pc = "xreset_run"
    /\ \E ok \in BOOLEAN :
         /\ ResetToolExits(ok)
         /\ reset_success' = ok
         /\ pc' = IF ok THEN "second_wait" ELSE "step2"
    /\ UNCHANGED <<envVars, mainVars, flashVars, ser_open, events, process_exit,
                   port, baud_idx, boot_log, cap, boot_messages_file, tr, tests, reports, runner_script>>

\* esptool.py could not be executed by reset_esp32: the exception leaves main
ResetToolNotRunnable ==
    /\ pc \in {"xreset_run", "freset_run"}
    /\ tool_running' = FALSE
    /\ pc' = "crashed"
    /\ process_exit' = 1
    /\ UNCHANGED <<now, envVars, mainVars, flashVars, ser_open, events, orchVars>>

\* time.sleep(2.0) after a successful explicit reset
SecondWaitStep ==
    /\ pc = "second_wait"
    /\ now' = now + SecondWait
    /\ events' = Append(events, "second_wait")
    /\ baud_idx' = 1
    /\ pc' = "flush_open"
    /\ UNCHANGED <<envVars, mainVars, flashVars, ser_open, tool_running, process_exit,
                   port, reset_success, boot_log, cap, boot_messages_file, tr, tests, reports, runner_script>>

\* for baud in [115200, 9600]
FlushBauds == <<115200, 9600>>

\* `continue` of the flush loop
FlushContinues ==
    IF baud_idx + 1 \in DOMAIN FlushBauds
    THEN /\ baud_idx' = baud_idx + 1
         /\ pc' = "flush_open"
    ELSE /\ baud_idx' = 0
         /\ pc' = "step2"

\* serial.Serial(port, baud, timeout=0.5) in the flush loop
FlushOpen ==
    /\ pc = "flush_open"
    /\ \E outcome \in {"opened", "serial_error", "other_error"} :
         CASE outcome = "opened" ->
                /\ ser_open' = ser_open + 1
                /\ baud_idx' = baud_idx
                /\ pc' = "flush_reset"
           [] outcome = "serial_error" ->
                /\ ser_open' = ser_open
                /\ FlushContinues
           [] OTHER ->
                /\ ser_open' = ser_open
                /\ baud_idx' = 0
                /\ pc' = "step2"
    /\ UNCHANGED <<now, envVars, mainVars, flashVars, tool_running, events, process_exit,
                   port, reset_success, boot_log, cap, boot_messages_file, tr, tests, reports, runner_script>>

\* reset_input_buffer, reset_output_buffer, close; an exception skips the close
FlushReset ==
    /\ pc = "flush_reset"
    /\ \E outcome \in {"flushed", "serial_error", "other_error"} :
         CASE outcome = "flushed" ->
                /\ ser_open' = ser_open - 1
                /\ baud_idx' = 0
                /\ pc' = "step2"
           [] outcome = "serial_error" ->
                /\ ser_open' = ser_open
                /\ FlushContinues
           [] OTHER ->
                /\ ser_open' = ser_open
                /\ baud_idx' = 0
                /\ pc' = "step2"
    /\ UNCHANGED <<now, envVars, mainVars, flashVars, tool_running, events, process_exit,
                   port, reset_success, boot_log, cap, boot_messages_file, tr, tests, reports, runner_script>>

Outcome(status, failure) == [name |-> "test_execution", status |-> status, failure |-> failure]

\* the tests are run whatever step 1 did
TestsDue_Always(code) == code \in {0, 1}

\* the tests are run when step 1 failed
TestsDue_Inverted(code) == code # 0

\* Step 2: `if exit_code == 0`
TestsDue(code) == code = 0

\* Step 2: `if exit_code == 0`, else the SKIP placeholder
Step2 ==
    /\ pc = "step2"
    /\ IF TestsDue(exit_code)
       THEN /\ boot_messages_file' = FALSE
            /\ tests' = tests
            /\ pc' = IF device_target = "esp32" /\ flash_start_time # -1
                     THEN "stale_clear" ELSE "test_enter"
       ELSE /\ tests' = <<Outcome("SKIP", "Flash failed")>>
            /\ boot_messages_file' = boot_messages_file
            /\ pc' = "report"
    /\ UNCHANGED <<now, envVars, mainVars, flashVars, ser_open, tool_running, events,
                   process_exit, port, reset_success, baud_idx, boot_log, cap, tr, reports, runner_script>>

\* boot_messages_log_path.unlink(), or OSError and the file stays
StaleClear ==
    /\ pc = "stale_clear"
    /\ IF boot_log.exists
       THEN \E unlinked \in BOOLEAN :
              boot_log' = IF unlinked THEN NoFile ELSE boot_log
       ELSE boot_log' = boot_log
    /\ pc' = "stale_check"
    /\ UNCHANGED <<now, envVars, mainVars, flashVars, ser_open, tool_running, events,
                   process_exit, port, reset_success, baud_idx, cap, boot_messages_file,
                   tr, tests, reports, runner_script>>

\* time_since_flash = time.time() - flash_start_time
time_since_flash == now - flash_start_time

\* port and time_since_flash > 8.0
IsStale(p, elapsed) == p # "" /\ elapsed > StaleThreshold

\* the staleness test; when stale, reset_esp32(port) starts esptool.py
StaleCheck ==
    /\ pc = "stale_check"
    /\ port' = detect_esp32_port(env_port, existing)
    /\ IF IsStale(port', time_since_flash)
       THEN /\ tool_running' = TRUE
            /\ events' = Append(events, "fresh_reset")
            /\ pc' = "freset_run"
       ELSE /\ UNCHANGED <<tool_running, events>>
            /\ pc' = "test_enter"
    /\ UNCHANGED <<now, envVars, mainVars, flashVars, ser_open, process_exit,
                   reset_success, baud_idx, boot_log, cap, boot_messages_file,
                   tr, tests, reports, runner_script>>

\* reset_esp32 returns to the stale path; its result is not looked at
FreshResetDone ==
    /\ pc = "freset_run"
    /\ \E ok \in BOOLEAN :
         /\ ResetToolExits(ok)
         /\ cap' = [NoCap EXCEPT !.reset_ok = ok]
    /\ pc' = "cap_open"
    /\ UNCHANGED <<envVars, mainVars, flashVars, ser_open, events, process_exit,
                   port, reset_success, baud_idx, boot_log, boot_messages_file,
                   tr, tests, reports, runner_script>>

\* --------------------------------------------------- test_uart_read_directly
\* return success, data_str / return False, "" / return False, str(e)
CaptureReturns(frame, found, text) ==
    /\ cap' = [frame EXCEPT !.found = found, !.text = text, !.returned = TRUE]
    /\ pc' = "save"

\* import serial; serial.Serial(port, 115200, timeout=timeout); sleep(0.1)
CaptureOpen ==
    /\ pc = "cap_open"
    /\ events' = Append(events, "capture")
    /\ \E outcome \in {"opened", "import_error", "open_error"} :
         CASE outcome = "opened" ->
                /\ ser_open' = ser_open + 1
                /\ now' = now + Stabilize
                /\ cap' = cap
                /\ pc' = "cap_read"
           [] outcome = "import_error" ->
                /\ UNCHANGED <<ser_open, now>>
                /\ CaptureReturns(cap, FALSE, <<>>)
           [] OTHER ->
                /\ UNCHANGED <<ser_open, now>>
                /\ CaptureReturns(cap, FALSE, <<"junk">>)
    /\ UNCHANGED <<envVars, mainVars, flashVars, tool_running, process_exit,
                   port, reset_success, baud_idx, boot_log, boot_messages_file,
                   tr, tests, reports, runner_script>>

\* the buffer resets and the polling loop; an exception skips ser.close()
CaptureRead ==
    /\ pc = "cap_read"
    /\ \/ \E raw \in CaptureInputs :
            /\ now' = now + CaptureBudget
            /\ cap' = [cap EXCEPT !.raw = raw]
            /\ pc' = "cap_close"
       \/ /\ now' = now
          /\ CaptureReturns(cap, FALSE, <<"junk">>)
    /\ UNCHANGED <<envVars, mainVars, flashVars, ser_open, tool_running, events,
                   process_exit, port, reset_success, baud_idx, boot_log,
                   boot_messages_file, tr, tests, reports, runner_script>>

\* ser.close(); data_str = data.decode(...); success = len(data) > 0
CaptureClose ==
    /\ pc = "cap_close"
    /\ ser_open' = ser_open - 1
    /\ CaptureReturns(cap, Len(cap.raw) > 0, Decode(cap.raw))
    /\ UNCHANGED <<now, envVars, mainVars, flashVars, tool_running, events,
                   process_exit, port, reset_success, baud_idx, boot_log,
                   boot_messages_file, tr, tests, reports, runner_script>>

\* ------------------------------------------------------- main, the stale path
\* `if boot_success and boot_data`
EvidenceWorthSaving(found, text) == found /\ Len(text) > 0

\* the new text is written after what the file holds
SavedLog_Appends(text) ==
    [exists |-> TRUE, data |-> boot_log.data \o text \o <<"\n">>, origin |-> "cur"]

\* f.write(boot_data); f.write('\n') into a file opened with 'w'
SavedLog(text) == [exists |-> TRUE, data |-> text \o <<"\n">>, origin |-> "cur"]

\* the write of boot_messages.log (or nothing to write), then time.sleep(0.5)
SaveEvidence ==
    /\ pc = "save"
    /\ IF EvidenceWorthSaving(cap.found, cap.text)
       THEN /\ boot_messages_file' = TRUE
            /\ boot_log' = SavedLog(cap.text)
            /\ events' = Append(events, "save")
       ELSE UNCHANGED <<boot_messages_file, boot_log, events>>
    /\ now' = now + PrePause
    /\ cap' = NoCap
    /\ pc' = "test_enter"
    /\ UNCHANGED <<envVars, mainVars, flashVars, ser_open, tool_running, process_exit,
                   port, reset_success, baud_idx, tr, tests, reports, runner_script>>

\* open(boot_messages_file, 'w') raises OSError: the exception leaves main
SaveEvidenceFails ==
    /\ pc = "save"
    /\ EvidenceWorthSaving(cap.found, cap.text)
    /\ boot_messages_file' = TRUE
    /\ pc' = "crashed"
    /\ process_exit' = 1
    /\ UNCHANGED <<now, envVars, mainVars, flashVars, ser_open, tool_running, events,
                   port, reset_success, baud_idx, boot_log, cap, tr, tests, reports, runner_script>>

\* ------------------------------------------------------------ run_test_runner
FailedMarker == "UART boot validation FAILED"
PassedMarker == "UART boot validation PASSED"
FoundMarker == "boot patterns found in boot_messages.log"

\* What the test runner's stdout may contain: any set of the three markers.
Stdouts == SUBSET {FailedMarker, PassedMarker, FoundMarker}

\* What the test runner may leave on stderr.
Stderrs == {"", "assertion failed"}

\* returncode != 0 and 'UART boot validation FAILED' in stdout
test_failed_uart_validation(returncode, stdout) ==
    returncode # 0 /\ FailedMarker \in stdout

\* 'UART boot validation PASSED' in stdout or 'boot patterns found ...' in stdout
test_passed_uart_validation(stdout) ==
    PassedMarker \in stdout \/ FoundMarker \in stdout

\* a non-zero exit status is given a status of its own
ExitVerdict_Error(returncode, stderr) ==
    IF returncode = 0 THEN Outcome("PASS", "")
    ELSE Outcome("ERROR", IF stderr # "" THEN stderr ELSE "Test runner failed")

\* the error text is dropped
ExitVerdict_NoDetail(returncode, stderr) ==
    Outcome(IF returncode = 0 THEN "PASS" ELSE "FAIL", "")

\* "Normal case: use test runner result"
ExitVerdict(returncode, stderr) ==
    Outcome(IF returncode = 0 THEN "PASS" ELSE "FAIL",
            IF returncode # 0 THEN stderr ELSE "")

\* the if / elif / else that appends the outcome of a test runner that ran
Reconcile(returncode, stdout, stderr, boot_messages_data) ==
    IF test_failed_uart_validation(returncode, stdout) /\ Truthy(boot_messages_data)
    THEN IF Len(FoundPatterns(ReconcilePatterns, boot_messages_data.val)) > 0
         THEN Outcome("PASS", "")
         ELSE Outcome("FAIL", IF stderr # "" THEN stderr ELSE "UART boot validation failed")
    ELSE IF test_passed_uart_validation(stdout)
         THEN Outcome("PASS", "")
         ELSE ExitVerdict(returncode, stderr)

\* boot_messages_data after the preferred read and the fallback read of
\* boot_messages.log (`given`: boot_messages_file was passed and exists)
LoadedData(log, given, readable) ==
    LET first == IF log.exists /\ readable THEN Some(log.data) ELSE None
    IN IF ~Truthy(first) /\ given /\ log.exists /\ readable
       THEN Some(log.data) ELSE first

\* the reads of boot_messages.log: the preferred read, then the fallback read
TestReadLog ==
    /\ pc = "test_enter"
    /\ events' = Append(events, "test")
    /\ \E readable \in BOOLEAN :
         LET data == LoadedData(boot_log, boot_messages_file, readable)
         IN tr' = [NoTr EXCEPT !.boot_messages_data = data,
                               !.data_origin = IF data.some THEN boot_log.origin ELSE "none"]
    /\ pc' = "test_run"
    /\ UNCHANGED <<now, envVars, mainVars, flashVars, ser_open, tool_running,
                   process_exit, port, reset_success, baud_idx, boot_log, cap,
                   boot_messages_file, tests, reports, runner_script>>

\* the placeholder is a failure
RunnerAbsentOutcome_Fail == Outcome("FAIL", "Test runner not found")

\* the placeholder appended when the test runner is not found
RunnerAbsentOutcome == Outcome("SKIP", "Test runner not found")

\* test_runner_path.exists() is false: the SKIP placeholder
TestRunnerAbsent ==
    /\ pc = "test_run"
    /\ tr' = [tr EXCEPT !.runner = "absent",
                        !.tests = <<RunnerAbsentOutcome>>,
                        !.returned = TRUE]
    /\ pc' = "test_return"
    /\ UNCHANGED <<now, envVars, mainVars, flashVars, ser_open, tool_running, events,
                   process_exit, port, reset_success, baud_idx, boot_log, cap,
                   boot_messages_file, tests, reports, runner_script>>

\* 'BOOT_MESSAGES_LOG' not in original_script
NeedsModification(content) == content = "original"

\* The rewriting of the script text: the substitutions, with the boot_check
\* block (which holds BOOT_MESSAGES_LOG) put in front.
ModifiedScript(content) == IF content = "original" THEN "patched" ELSE content

\* test_runner_path.exists() is true; with an evidence file at hand the script
\* is read and, unless it holds BOOT_MESSAGES_LOG already, saved as a backup
\* and rewritten in place.  Any exception on the way is caught and ignored.
TestPatchScript ==
    /\ pc = "test_run"
    /\ IF boot_messages_file /\ boot_log.exists
       THEN \/ \* open(test_runner_path, 'r') raises
               runner_script' = runner_script
            \/ \E content \in {"original", "marked"} :
                 IF ~NeedsModification(content)
                 THEN runner_script' = [read_as |-> content, content |-> content]
                 ELSE \E script_written \in BOOLEAN :
                        \* FALSE: the backup or the script could not be written
                        runner_script' =
                             [read_as |-> content,
                              content |-> IF script_written
                                          THEN ModifiedScript(content) ELSE content]
       ELSE runner_script' = runner_script
    /\ tr' = [tr EXCEPT !.runner = "present"]
    /\ pc' = "test_exec"
    /\ UNCHANGED <<now, envVars, mainVars, flashVars, ser_open, tool_running, events,
                   process_exit, port, reset_success, baud_idx, boot_log, cap,
                   boot_messages_file, tests, reports>>

\* What an exception of subprocess.run may say.
RaisedTexts == {"Permission denied", "Exec format error"}

\* the exception text is lost
RaisedOutcome_NoText(text) == Outcome("FAIL", "")

\* the outcome appended by `except Exception as e`
RaisedOutcome(text) == Outcome("FAIL", text)

\* subprocess.run raises: FAIL with the exception text
TestRunnerRaises ==
    /\ pc = "test_exec"
    /\ \E text \in RaisedTexts :
         tr' = [tr EXCEPT !.raised = text,
                          !.tests = <<RaisedOutcome(text)>>,
                          !.returned = TRUE]
    /\ pc' = "test_return"
    /\ UNCHANGED <<now, envVars, mainVars, flashVars, ser_open, tool_running, events,
                   process_exit, port, reset_success, baud_idx, boot_log, cap,
                   boot_messages_file, tests, reports, runner_script>>

\* subprocess.run returns: the outcome is reconciled with the boot log
TestRunnerRuns ==
    /\ pc = "test_exec"
    /\ \E returncode \in {0, 1}, stdout \in Stdouts, stderr \in Stderrs :
         tr' = [tr EXCEPT !.ran = TRUE, !.returncode = returncode,
                          !.stdout = stdout, !.stderr = stderr,
                          !.tests = <<Reconcile(returncode, stdout, stderr,
                                                tr.boot_messages_data)>>,
                          !.returned = TRUE]
    /\ pc' = "test_return"
    /\ UNCHANGED <<now, envVars, mainVars, flashVars, ser_open, tool_running, events,
                   process_exit, port, reset_success, baud_idx, boot_log, cap,
                   boot_messages_file, tests, reports, runner_script>>

\* the status is compared with a word no outcome carries
AnyFail_WrongWord(ts) == \E i \in DOMAIN ts : ts[i].status = "FAILED"

\* any(t.get('status') == 'FAIL' for t in tests)
AnyFail(ts) == \E i \in DOMAIN ts : ts[i].status = "FAIL"

\* tests = run_test_runner(...); exit_code = 1 if any test failed
TestReturned ==
    /\ pc = "test_return"
    /\ tests' = tr.tests
    /\ exit_code' = IF AnyFail(tr.tests) THEN 1 ELSE exit_code
    /\ tr' = NoTr
    /\ pc' = "report"
    /\ UNCHANGED <<now, envVars, flash_start_time, flash_end_time, flashVars, ser_open,
                   tool_running, events, process_exit, port, reset_success, baud_idx,
                   boot_log, cap, boot_messages_file, reports, runner_script>>

\* ------------------------------------------------------------------ reporting
StatusOf(code) == IF code = 0 THEN "PASS" ELSE "FAIL"

\* every outcome that is not a PASS is counted
Failures_NotPassed(ts) == Cardinality({i \in DOMAIN ts : ts[i].status # "PASS"})

\* failures = sum(1 for t in tests if t.get('status') == 'FAIL')
Failures(ts) == Cardinality({i \in DOMAIN ts : ts[i].status = "FAIL"})

\* the <testcase> elements of junit.xml: the name, and a <failure> element
\* with the failure text for an outcome whose status is FAIL
JUnitCases(ts) ==
    [i \in DOMAIN ts |->
        [name |-> ts[i].name,
         failed |-> ts[i].status = "FAIL",
         message |-> IF ts[i].status = "FAIL" THEN ts[i].failure ELSE ""]]

\* What write_summary, write_junit and write_meta write, in this order: the
\* summary has the status and the outcomes, junit.xml the counts and the test
\* cases, meta.yaml the exit code and the status derived from it.
ReportRecords(code, ts) ==
    <<[file |-> "ats-summary.json", status |-> StatusOf(code), tests |-> ts],
      [file |-> "junit.xml", total |-> Len(ts), failures |-> Failures(ts),
       testcases |-> JUnitCases(ts)],
      [file |-> "meta.yaml", exit_code |-> code, status |-> StatusOf(code)]>>

\* write_summary, write_junit, write_meta and sys.exit(exit_code)
Report ==
    /\ pc = "report"
    /\ reports' = ReportRecords(exit_code, tests)
    /\ events' = Append(events, "report")
    /\ process_exit' = exit_code
    /\ pc' = "done"
    /\ UNCHANGED <<now, envVars, mainVars, flashVars, ser_open, tool_running,
                   port, reset_success, baud_idx, boot_log, cap, boot_messages_file,
                   tr, tests, runner_script>>

\* a report file cannot be written: the exception leaves main, with the
\* reports before it written
ReportFails ==
    /\ pc = "report"
    /\ \E written \in 0 .. 2 :
         reports' = SubSeq(ReportRecords(exit_code, tests), 1, written)
    /\ pc' = "crashed"
    /\ process_exit' = 1
    /\ UNCHANGED <<now, envVars, mainVars, flashVars, ser_open, tool_running, events,
                   port, reset_success, baud_idx, boot_log, cap, boot_messages_file,
                   tr, tests, runner_script>>

Next ==
    \/ Hotplug
    \/ Start
    \/ FlashEnter
    \/ FlashPrecheckOpen
    \/ FlashPrecheckClose
    \/ FlashToolStart
    \/ FlashToolNotRunnable
    \/ FlashToolSucceeds
    \/ FlashToolFails
    \/ FlashHandleFailure
    \/ FlashAfterRecovery
    \/ RecoveryResolve
    \/ RecoveryUnbind
    \/ RecoveryBind
    \/ FlashReturned
    \/ BootWaitStep
    \/ ExplicitResetStart
    \/ ExplicitResetDone
    \/ ResetToolNotRunnable
    \/ SecondWaitStep
    \/ FlushOpen
    \/ FlushReset
    \/ Step2
    \/ StaleClear
    \/ StaleCheck
    \/ FreshResetDone
    \/ CaptureOpen
    \/ CaptureRead
    \/ CaptureClose
    \/ SaveEvidence
    \/ SaveEvidenceFails
    \/ TestReadLog
    \/ TestRunnerAbsent
    \/ TestPatchScript
    \/ TestRunnerRaises
    \/ TestRunnerRuns
    \/ TestReturned
    \/ Report
    \/ ReportFails

Spec == Init /\ [][Next]_vars

\* ------------------------------------------------------------------- Flasher
\* how often x occurs in seq
Count(seq, x) == Cardinality({i \in DOMAIN seq : seq[i] = x})

\* how the tool ended, attempt by attempt
ToolOutcomes(trace) == SelectSeq(trace, LAMBDA e : e \in {"ok", "busy", "fatal"})

\* C1: one call of flash_firmware starts the flashing tool at most 3 times,
\* whatever the failures are; after a third port-busy failure in a row the
\* call does nothing more than return false.
C1_ToolAtMostThrice ==
    /\ Count(fl.trace, "tool") <= 3
    /\ ToolOutcomes(fl.trace) = <<"busy", "busy", "busy">>
         => /\ pc \in {"fl_failed", "fl_return"}
            /\ Count(fl.trace, "tool") = 3
            /\ pc = "fl_return" => fl.result = "false"

\* three port-busy failures in a row, and flash_firmware has returned false
C1_Witness ==
    /\ pc = "fl_return"
    /\ ToolOutcomes(fl.trace) = <<"busy", "busy", "busy">>
    /\ fl.result = "false"

\* C2: port-busy failures on attempts 1 and 2 and success on attempt 3 make
\* flash_firmware return true, with try_reset_serial_port called exactly once,
\* after the first failure and before the second start of the tool.
C2_BusyBusyOk ==
    (pc = "fl_return" /\ ToolOutcomes(fl.trace) = <<"busy", "busy", "ok">>)
      => /\ fl.result = "true"
         /\ Count(fl.trace, "recovery") = 1
         /\ \A r \in DOMAIN fl.trace :
              fl.trace[r] = "recovery"
                => /\ Count(SubSeq(fl.trace, 1, r - 1), "busy") = 1
                   /\ Count(SubSeq(fl.trace, 1, r - 1), "tool") = 1

\* busy, busy, ok: flash_firmware has returned
C2_Witness ==
    /\ pc = "fl_return"
    /\ ToolOutcomes(fl.trace) = <<"busy", "busy", "ok">>
    /\ fl.result = "true"

\* C3: a failure whose error text holds none of the port-busy signatures ends
\* the call: flash_firmware returns false, and after that failure it neither
\* starts the tool again nor calls try_reset_serial_port.
C3_FatalIsTerminal ==
    \A i \in DOMAIN fl.trace :
       fl.trace[i] = "fatal"
         => /\ \A j \in DOMAIN fl.trace : j > i => fl.trace[j] = "return"
            /\ pc \in {"fl_failed", "fl_return"}
            /\ pc = "fl_return" => fl.result = "false"

\* a failure without a signature on the second attempt, and the call has returned
C3_Witness ==
    /\ pc = "fl_return"
    /\ ToolOutcomes(fl.trace) = <<"busy", "fatal">>
    /\ fl.result = "false"

\* The process is inside try_reset_serial_port, or has just left it.
InRecovery == pc \in {"rec_resolve", "rec_unbind", "rec_bind", "fl_after_recovery"}

\* C4: try_reset_serial_port is called at most once per call of
\* flash_firmware, directly after the first port-busy failure of the tool, and
\* by no other step of a run: it runs, and writes to sysfs, only while flash_firmware
\* is just past that call.
C4_RecoveryOnlyAfterFirstBusy ==
    /\ Count(fl.trace, "recovery") <= 1
    /\ \A r \in DOMAIN fl.trace :
         fl.trace[r] = "recovery"
           => /\ r > 1 /\ fl.trace[r - 1] = "busy"
              /\ Count(SubSeq(fl.trace, 1, r - 1), "busy") = 1
    /\ (InRecovery \/ rec # NoRec)
         => /\ InRecovery
            /\ Len(fl.trace) > 0
            /\ fl.trace[Len(fl.trace)] = "recovery"

\* try_reset_serial_port has rebound the driver after the first port-busy failure
C4_Witness ==
    /\ pc = "fl_after_recovery"
    /\ rec.result = "true"
    /\ Len(rec.writes) = 2
    /\ ToolOutcomes(fl.trace) = <<"busy">>

\* C5: with no port located, or with the image file missing, flash_firmware
\* returns false and has neither started the tool nor called
\* try_reset_serial_port.
C5_PreconditionsFailFast ==
    (fl.attempt >= 1 /\ (fl.port = "" \/ ~fl.firmware_exists))
      => /\ pc = "fl_return"
         /\ fl.result = "false"
         /\ Count(fl.trace, "tool") = 0
         /\ Count(fl.trace, "recovery") = 0
         /\ rec = NoRec

\* a port was located but the image file is missing, and the call has returned
C5_Witness ==
    /\ pc = "fl_return"
    /\ fl.port # ""
    /\ ~fl.firmware_exists
    /\ fl.result = "false"

\* --------------------------------------------------------------- Test Invoker
\* The test runner ran and run_test_runner is about to return its outcome.
Reconciled == pc = "test_return" /\ tr.ran

\* The boot evidence read holds at least one of the recognised tokens.
EvidenceHasToken ==
    /\ tr.boot_messages_data.some
    /\ \E tok \in Range(BootPatterns) : Contains(tr.boot_messages_data.val, tok)

\* C6: for every exit status and every recognised token (reset cause, ROM
\* banner, framework banner, fatal-exception banner, leveled-log prefixes): when
\* stdout holds the FAILED marker and the boot evidence holds the token, the
\* single outcome is PASS.
C6_Rule1 ==
    (Reconciled /\ FailedMarker \in tr.stdout /\ EvidenceHasToken)
      => Len(tr.tests) = 1 /\ tr.tests[1].status = "PASS"

\* exit status 1, the FAILED marker, evidence whose only token is the
\* fatal-exception banner: the outcome is FAIL
C6_Witness ==
    /\ Reconciled
    /\ tr.returncode = 1
    /\ FailedMarker \in tr.stdout
    /\ tr.boot_messages_data = Some(<<"Guru Meditation", "\n">>)
    /\ tr.tests[1].status = "FAIL"

\* C7: whenever stdout holds the PASSED marker the outcome is PASS, for every
\* exit status and every state of the boot evidence, the FAILED marker being
\* present with evidence that holds no token included.
C7_Rule2 ==
    (Reconciled /\ PassedMarker \in tr.stdout)
      => Len(tr.tests) = 1 /\ tr.tests[1].status = "PASS"

\* both markers, exit status 1, evidence without a token: the outcome is FAIL
C7_Witness ==
    /\ Reconciled
    /\ tr.returncode = 1
    /\ {FailedMarker, PassedMarker} \subseteq tr.stdout
    /\ tr.boot_messages_data = Some(<<"junk", "\n">>)
    /\ tr.tests[1].status = "FAIL"

\* the exit status decides, and a failure carries the captured stderr
ExitStatusDecides ==
    /\ Len(tr.tests) = 1
    /\ tr.tests[1].status = "PASS" <=> tr.returncode = 0
    /\ tr.returncode # 0 => tr.tests[1] = Outcome("FAIL", tr.stderr)

C9_EvidenceIsOfThisRun ==
    Truthy(tr.boot_messages_data) => tr.data_origin = "cur"

\* the test runner ran against a boot log that a previous run wrote
C9_Witness ==
    /\ Reconciled
    /\ tr.boot_messages_data = Some(<<"rst:", "\n">>)
    /\ tr.data_origin = "prev"
    /\ ~Contains(events, "fresh_reset")

\* C10: at the staleness check with a port located, the fresh reset (followed
\* by the capture) is made exactly when the time since flash_firmware returned
\* exceeds the threshold of 8 s.
C10_StaleSinceCompletion ==
    /\ pc = "freset_run" => now - flash_end_time > StaleThreshold
    /\ (pc = "test_enter" /\ flash_end_time # -1 /\ port # ""
          /\ ~Contains(events, "fresh_reset"))
         => now - flash_end_time <= StaleThreshold

\* a fresh reset is under way although flash_firmware returned less than 8 s ago
C10_Witness ==
    /\ pc = "freset_run"
    /\ now - flash_end_time <= StaleThreshold
    /\ now - flash_start_time > StaleThreshold

\* The run is at a place where no hardware is touched and no test is run:
\* before step 1, between step 1 and the reports, or at its end.
OutsideHardware == pc \in {"start", "step2", "report", "done", "exited", "crashed"}

\* The run has written its three reports and left through sys.exit(exit_code).
Reported == pc = "done" /\ Len(reports) = 3

\* every report written so far gives this overall status
ReportsSay(status) ==
    \A i \in DOMAIN reports :
        reports[i].file \in {"ats-summary.json", "meta.yaml"} => reports[i].status = status

\* C11: with a device target that is not recognised the run touches no
\* hardware (no flash, no reset, no serial open, no capture) and never runs the
\* test procedure; it ends with status FAIL, exit status 1 and exactly one
\* outcome, a SKIP.
C11_UnknownTargetShortCircuits ==
    device_target # "esp32"
      => /\ OutsideHardware
         /\ Range(events) \subseteq {"report"}
         /\ ser_open = 0 /\ ~tool_running
         /\ fl = NoFrame /\ rec = NoRec /\ cap = NoCap /\ tr = NoTr
         /\ pc = "done"
              => /\ process_exit = 1
                 /\ Len(reports) = 3 /\ ReportsSay("FAIL")
                 /\ Len(tests) = 1 /\ tests[1].status = "SKIP"
                 /\ \A i \in DOMAIN reports :
                      reports[i].file = "ats-summary.json" => reports[i].tests = tests

\* a run for an unknown target has ended with its reports written
C11_Witness ==
    /\ Reported
    /\ device_target = "stm32"
    /\ process_exit = 1
    /\ tests = <<Outcome("SKIP", "Flash failed")>>

\* flash_firmware was called and returned false
FlashFailed ==
    /\ flash_start_time # -1
    /\ flash_end_time = -1
    /\ fl = NoFrame
    /\ pc # "fl_enter"

\* C12: after flash_firmware returned false the run makes no boot wait, no
\* reset, no capture and no test invocation; it goes straight to the reports
\* with status FAIL, exit status 1 and the single outcome SKIP "Flash failed".
C12_FlashFailureSkipsTests ==
    FlashFailed
      => /\ pc \in {"step2", "report", "done", "crashed"}
         /\ Range(events) \subseteq {"flash", "report"}
         /\ ser_open = 0 /\ ~tool_running
         /\ cap = NoCap /\ tr = NoTr
         /\ exit_code = 1
         /\ pc \in {"report", "done"} => tests = <<Outcome("SKIP", "Flash failed")>>
         /\ pc = "done"
              => /\ process_exit = 1
                 /\ Len(reports) = 3 /\ ReportsSay("FAIL")
                 /\ \A i \in DOMAIN reports :
                      reports[i].file = "ats-summary.json" => reports[i].tests = tests

\* the flash failed and the run has ended with its reports written
C12_Witness ==
    /\ Reported
    /\ FlashFailed
    /\ process_exit = 1
    /\ tests = <<Outcome("SKIP", "Flash failed")>>

\* The stale path of this run saved a capture that holds a recognised token,
\* and run_test_runner read it.
FreshEvidenceWithToken ==
    /\ flash_end_time # -1
    /\ Contains(events, "fresh_reset") /\ Contains(events, "save")
    /\ boot_log.origin = "cur"
    /\ \E tok \in Range(BootPatterns) : Contains(boot_log.data, tok)
    /\ tr.boot_messages_data = Some(boot_log.data)

\* C13: flash succeeded, the boot log was stale, the capture after the fresh
\* reset holds any one recognised token, and the test procedure exits non-zero
\* with the FAILED marker: the single outcome is PASS and exit_code stays 0,
\* so that the overall status is PASS and the exit status 0.
C13_ScenarioC ==
    (Reconciled /\ FreshEvidenceWithToken
       /\ tr.returncode # 0 /\ FailedMarker \in tr.stdout)
      => tr.tests = <<Outcome("PASS", "")>> /\ exit_code = 0

\* scenario C with the fatal-exception banner as the captured token: FAIL
C13_Witness ==
    /\ Reconciled /\ FreshEvidenceWithToken
    /\ boot_log.data = <<"Guru Meditation", "\n">>
    /\ tr.returncode = 1 /\ tr.stdout = {FailedMarker}
    /\ tr.tests[1].status = "FAIL"

\* flash succeeded for a recognised target and no outcome is a FAIL
RunIsGood ==
    /\ device_target = "esp32"
    /\ flash_end_time # -1
    /\ \A i \in DOMAIN tests : tests[i].status # "FAIL"

\* C14: for every run that reaches the reports, each report written says PASS
\* iff the target was recognised, the flash succeeded and no outcome is FAIL;
\* and the exit status given to sys.exit is 0 iff the reports say PASS, and 1
\* otherwise.
C14_ExitMatchesStatus ==
    /\ \A i \in DOMAIN reports :
         reports[i].file \in {"ats-summary.json", "meta.yaml"}
             => /\ reports[i].status \in {"PASS", "FAIL"}
                /\ reports[i].status = "PASS" <=> RunIsGood
    /\ pc = "done"
         => /\ Len(reports) = 3
            /\ process_exit \in {0, 1}
            /\ process_exit = 0 <=> ReportsSay("PASS")

\* a run whose test procedure failed has reported FAIL and left with status 1
C14_Witness ==
    /\ Reported
    /\ flash_end_time # -1
    /\ tests = <<Outcome("FAIL", "assertion failed")>>
    /\ ReportsSay("FAIL")
    /\ process_exit = 1

\* C15: on every failure path the run reaches the reports and writes them
\* before the process ends; it never ends by an early exit or an unhandled
\* exception.
C15_AlwaysReports ==
    Ended => Reported

\* the manifest could not be loaded: the process has left with no report written
C15_Witness ==
    /\ pc = "exited"
    /\ process_exit = 1
    /\ reports = <<>>
    /\ events = <<>>

\* the one outcome the test invoker gives when run_tests.sh is not there
SkipNotFound ==
    <<[name |-> "test_execution", status |-> "SKIP", failure |-> "Test runner not found"]>>

\* C16: when the test procedure executable is absent after a successful flash,
\* the test invoker launches no subprocess (and does not touch the script) and
\* returns exactly one SKIP outcome with an explanatory detail; the run then
\* ends with overall status PASS and exit status 0.
C16_AbsentRunnerIsSkip ==
    /\ (pc = "test_return" /\ tr.runner = "absent")
         => /\ ~tr.ran
            /\ tr.raised = ""
            /\ runner_script = UnseenScript
            /\ tr.tests = SkipNotFound
            /\ flash_end_time # -1
    /\ (tr.runner = "absent" /\ pc \in {"test_exec", "test_return"}) => ~tool_running
    /\ (flash_end_time # -1 /\ tests = SkipNotFound)
         => /\ exit_code = 0
            /\ ReportsSay("PASS")
            /\ pc = "done" => (Len(reports) = 3 /\ process_exit = 0)

\* a flashed run whose test procedure was absent has reported PASS and left with 0
C16_Witness ==
    /\ Reported
    /\ flash_end_time # -1
    /\ tests = SkipNotFound
    /\ ReportsSay("PASS")
    /\ process_exit = 0

\* C17: when launching the test procedure raises an exception, the test
\* invoker returns exactly one FAIL outcome whose detail is the exception
\* text, and the run goes on to the reports with overall status FAIL.
C17_RaisedIsFail ==
    /\ (pc = "test_return" /\ tr.raised # "")
         => /\ tr.raised \in RaisedTexts
            /\ tr.tests = <<[name |-> "test_execution", status |-> "FAIL",
                             failure |-> tr.raised]>>
    /\ (Len(tests) = 1 /\ tests[1].status = "FAIL" /\ tests[1].failure \in RaisedTexts)
         => /\ exit_code = 1
            /\ pc \in {"report", "done", "crashed"}
            /\ ReportsSay("FAIL")
            /\ pc = "done" => (Len(reports) = 3 /\ process_exit = 1)

\* a run whose test procedure could not be executed has reported FAIL
C17_Witness ==
    /\ Reported
    /\ tests = <<[name |-> "test_execution", status |-> "FAIL",
                  failure |-> "Exec format error"]>>
    /\ ReportsSay("FAIL")
    /\ process_exit = 1

\* C18: every call of the test invoker, on every path (executable absent,
\* exception, each reconciliation branch), returns exactly one outcome, whose
\* status is one of PASS, FAIL, SKIP.
C18_OneOutcome ==
    pc = "test_return"
        => /\ Len(tr.tests) = 1
           /\ tr.tests[1].status \in {"PASS", "FAIL", "SKIP"}
           /\ tr.tests[1].name = "test_execution"

\* the invoker returns after a reconciliation that overrode a non-zero exit
C18_Witness ==
    /\ pc = "test_return"
    /\ tr.ran
    /\ tr.returncode # 0
    /\ Len(tr.tests) = 1
    /\ tr.tests[1].status = "PASS"

\* C19: invoking the test invoker never modifies the source file of the test
\* procedure: with or without boot evidence, the content of run_tests.sh after
\* the call equals its content before the call.
C19_ScriptUntouched ==
    runner_script.read_as # "unseen" => runner_script.content = runner_script.read_as

\* the invoker has returned and run_tests.sh is no longer what it was
C19_Witness ==
    /\ pc = "test_return"
    /\ boot_messages_file
    /\ runner_script.read_as = "original"
    /\ runner_script.content = "patched"

\* The files a run reads from the workspace and the results directory: the
\* manifest, the boot evidence and the test procedure (read, then executed).
FilesRead == {"ats-manifest.yaml", "boot_messages.log", "run_tests.sh"}

\* the files of the workspace and the results directory this run has written
FilesWritten ==
    {reports[i].file : i \in DOMAIN reports}
    \cup (IF boot_log.exists /\ boot_log.origin = "cur" THEN {"boot_messages.log"} ELSE {})
    \cup (IF runner_script.content # runner_script.read_as THEN {"run_tests.sh"} ELSE {})

\* C20: the only state written by one run that a later run sharing the
\* workspace and the results directory reads is the boot evidence file, which
\* is overwritten as a whole; no other file written by a run is read by the next.
C20_OnlyEvidenceCrossesRuns ==
    Ended => (FilesWritten \cap FilesRead) \subseteq {"boot_messages.log"}

\* a run has ended leaving behind a rewritten run_tests.sh beside its evidence
C20_Witness ==
    /\ Reported
    /\ boot_log.exists /\ boot_log.origin = "cur"
    /\ runner_script.content = "patched"
    /\ FilesWritten \cap FilesRead = {"boot_messages.log", "run_tests.sh"}

\* The places where an operation that opened a serial channel is still at
\* work on it: the pre-check's with block, one flush of the flush loop, the
\* capture between its open and its close.
HoldingChannel == pc \in {"fl_precheck_close", "flush_reset", "cap_read", "cap_close"}

\* C21: every serial channel the system opens (pre-check of the flasher, flush
\* at each baud rate, capture) is closed before the operation that opened it
\* returns, on every exit path, those where a flush, a read or a buffer reset
\* raises included: outside these operations no channel is open.
C21_ChannelsClosedOnReturn ==
    ~HoldingChannel => ser_open = 0

\* a run has written its reports and ended with a channel it never closed
C21_Witness ==
    /\ Reported
    /\ flash_end_time # -1
    /\ ser_open > 0

\* the places inside flash_firmware after the pre-check
FlashingPcs == {"fl_attempt", "fl_tool", "fl_failed", "rec_resolve", "rec_unbind",
                "rec_bind", "fl_after_recovery", "fl_return"}

\* C22: whenever the flashing tool runs the system holds no open serial
\* channel: the pre-check's channel is closed before the first run of the tool
\* and no channel is opened between the attempts.
C22_NoChannelWhileFlashing ==
    /\ pc \in FlashingPcs => ser_open = 0
    /\ pc = "fl_tool" => tool_running
    /\ \A i, j \in DOMAIN fl.trace :
         (fl.trace[i] = "tool" /\ fl.trace[j] \in {"precheck_ok", "precheck_failed"})
             => j < i

\* the tool runs for the second time after a pre-check that opened the port
C22_Witness ==
    /\ pc = "fl_tool"
    /\ tool_running
    /\ fl.attempt = 2
    /\ fl.trace[1] = "precheck_ok"
    /\ Count(fl.trace, "tool") = 2
    /\ ser_open = 0

\* A step of the resolution of try_reset_serial_port failed: the port path or
\* the sysfs device link is missing, the bus path is unresolved or names an
\* interface, or one of the two control files is missing.
ResolutionFailed ==
    \/ ~rec.sysfs.port_exists
    \/ ~rec.sysfs.link_exists
    \/ rec.sysfs.device_dir \in {"", "1-1.2:1.0"}
    \/ ~rec.sysfs.unbind_exists
    \/ ~rec.sysfs.bind_exists

\* C23: when a step of its resolution fails, try_reset_serial_port returns
\* False and has written to neither the unbind nor the bind control file.
C23_FailedResolutionWritesNothing ==
    /\ (pc = "fl_after_recovery" /\ ResolutionFailed)
         => /\ rec.result = "false"
            /\ rec.writes = <<>>
            /\ now = rec.entered
    /\ pc \in {"rec_unbind", "rec_bind"} => ~ResolutionFailed

\* the recovery has returned because only the bind control file is missing
C23_Witness ==
    /\ pc = "fl_after_recovery"
    /\ rec.sysfs = [port_exists |-> TRUE, link_exists |-> TRUE, device_dir |-> "1-1.2",
                    unbind_exists |-> TRUE, bind_exists |-> FALSE]
    /\ rec.result = "false"
    /\ rec.writes = <<>>

\* C24: try_reset_serial_port returns True only after it has written the
\* device identifier to unbind and then the same identifier to bind, in that
\* order, each write followed by the settle wait; it never returns True having
\* made only one of the two writes.
C24_TrueOnlyAfterUnbindThenBind ==
    /\ (pc = "fl_after_recovery" /\ rec.result = "true")
         => /\ rec.writes = <<[file |-> "unbind", id |-> "1-1.2"],
                              [file |-> "bind", id |-> "1-1.2"]>>
            /\ rec.bus_path = "1-1.2"
            /\ now - rec.entered = 2 * SettleDelay
    /\ pc = "rec_bind"
         => /\ rec.writes = <<[file |-> "unbind", id |-> "1-1.2"]>>
            /\ now - rec.entered = SettleDelay
    /\ pc = "rec_unbind" => (rec.writes = <<>> /\ now = rec.entered)

\* the recovery has returned True after its two writes and its two waits
C24_Witness ==
    /\ pc = "fl_after_recovery"
    /\ rec.result = "true"
    /\ Len(rec.writes) = 2
    /\ rec.writes[1].file = "unbind" /\ rec.writes[2].file = "bind"
    /\ now = rec.entered + 2 * SettleDelay

\* ------------------------------------------------ detect_esp32_port, by itself
\* Values of SERIAL_PORT detect_esp32_port is called with: unset or empty,
\* blank, a path, a path with white space before or after it.
LocateOverrides ==
    {<<>>, <<" ">>, <<"/dev/ttyUSB5">>, <<"/dev/ttyACM1">>, <<"/dev/custom0">>,
     <<" ", "/dev/ttyUSB5">>, <<"/dev/ttyACM7", "\n">>}

\* Paths that may exist when detect_esp32_port is called.
LocateNodes == Range(SortedDevNodes) \cup {"/dev/custom0"}

\* The variables no call of a single function touches.
NothingStarted ==
    /\ now = 0
    /\ hotplugs = 0
    /\ device_target = "esp32"
    /\ exit_code = 0
    /\ flash_start_time = -1
    /\ flash_end_time = -1
    /\ fl = NoFrame
    /\ rec = NoRec
    /\ tool_running = FALSE
    /\ events = <<>>
    /\ process_exit = -1
    /\ reset_success = FALSE
    /\ baud_idx = 0
    /\ tests = <<>>
    /\ reports = <<>>
    /\ runner_script = UnseenScript

InitLocate ==
    /\ pc = "locate"
    /\ env_port \in LocateOverrides
    /\ existing \in SUBSET LocateNodes
    /\ port = ""
    /\ ser_open = 0
    /\ boot_log = NoFile
    /\ cap = NoCap
    /\ boot_messages_file = FALSE
    /\ tr = NoTr
    /\ NothingStarted

\* port = detect_esp32_port()
LocateCall ==
    /\ pc = "locate"
    /\ port' = detect_esp32_port(env_port, existing)
    /\ pc' = "located"
    /\ UNCHANGED <<now, envVars, mainVars, flashVars, ser_open, tool_running, events,
                   process_exit, reset_success, baud_idx, boot_log, cap,
                   boot_messages_file, tr, tests, reports, runner_script>>

NextLocate == LocateCall

SpecLocate == InitLocate /\ [][NextLocate]_vars

\* the first member of seq that is in S, "" when there is none
FirstIn(seq, S) ==
    IF \E i \in DOMAIN seq : seq[i] \in S
    THEN seq[CHOOSE i \in DOMAIN seq :
                 seq[i] \in S /\ \A j \in 1 .. i - 1 : seq[j] \notin S]
    ELSE ""

\* What the resolution order gives for an override path ("" for none): the
\* override if it exists, else the first existing conventional path, else the
\* lexicographically first device node, else nothing.
ResolutionOrder(override) ==
    IF override # "" /\ override \in existing THEN override
    ELSE IF FirstIn(<<"/dev/ttyUSB0", "/dev/ttyUSB1", "/dev/ttyACM0", "/dev/ttyACM1">>,
                    existing) # ""
    THEN FirstIn(<<"/dev/ttyUSB0", "/dev/ttyUSB1", "/dev/ttyACM0", "/dev/ttyACM1">>,
                 existing)
    ELSE FirstIn(<<"/dev/ttyACM0", "/dev/ttyACM1", "/dev/ttyACM7",
                   "/dev/ttyUSB0", "/dev/ttyUSB1", "/dev/ttyUSB5">>, existing)

\* the value of SERIAL_PORT as it is, when it is a path
VerbatimOverride == IF Len(env_port) = 1 THEN env_port[1] ELSE ""

\* the path in the value of SERIAL_PORT, without the white space around it
PathInOverride ==
    IF \E i \in DOMAIN env_port : env_port[i] \notin {" ", "\n"}
    THEN env_port[CHOOSE i \in DOMAIN env_port : env_port[i] \notin {" ", "\n"}]
    ELSE ""

\* C25 as stated: over every override value and every set of existing paths,
\* detect_esp32_port returns the override if it is set and exists, otherwise
\* the first existing path of the priority list, otherwise the
\* lexicographically first matching device path, otherwise nothing.
C25_Locate_AsStated ==
    pc = "located" => port = ResolutionOrder(VerbatimOverride)

\* C25: the same, the override being the value of SERIAL_PORT with the white
\* space before and after it removed: a value that names an existing path once
\* stripped is returned (stripped), a blank value counts as unset.
C25_Locate ==
    pc = "located" => port = ResolutionOrder(PathInOverride)

\* a padded override wins over an existing conventional path
C25_Witness ==
    /\ pc = "located"
    /\ env_port = <<" ", "/dev/ttyUSB5">>
    /\ {"/dev/ttyUSB0", "/dev/ttyUSB5"} \subseteq existing
    /\ port = "/dev/ttyUSB5"

\* C26: test_uart_read_directly returns found = True iff what it returns
\* beside it is non-empty, on every return path, those where opening or
\* reading the channel raises included.
C26_FoundIffNonEmpty ==
    cap.returned => (cap.found <=> Len(cap.text) > 0)

\* the capture read bytes that are not text: found with nothing returned
C26_Witness ==
    /\ pc = "save"
    /\ cap.returned
    /\ cap.raw = <<"bad">>
    /\ cap.found
    /\ cap.text = <<>>

\* ------------------------------------------- the boot evidence store, by itself
\* Bytes a capture may hand to the store: text, a boot token, a line end, a
\* byte that is not UTF-8.
StoreAtoms == {"rst:", "junk", "\n", "bad"}

StoreInputs == SeqsUpTo(StoreAtoms, MaxStoreLen)

\* How many captures are saved one after the other (a run, then a later run).
StoreRounds == 2

InitStore ==
    /\ pc = "st_capture"
    /\ env_port = <<>>
    /\ existing = {}
    /\ port = ""
    /\ ser_open = 0
    /\ boot_log \in PrevLogs
    /\ cap = NoCap
    /\ boot_messages_file = FALSE
    /\ tr = NoTr
    /\ NothingStarted

\* test_uart_read_directly returns what it read: success, data_str
StoreCapture ==
    /\ pc = "st_capture"
    /\ Count(events, "capture") < StoreRounds
    /\ \E raw \in StoreInputs :
         cap' = [NoCap EXCEPT !.raw = raw, !.found = Len(raw) > 0,
                              !.text = Decode(raw), !.returned = TRUE]
    /\ events' = Append(events, "capture")
    /\ pc' = "st_save"
    /\ UNCHANGED <<now, envVars, mainVars, flashVars, ser_open, tool_running,
                   process_exit, port, reset_success, baud_idx, boot_log,
                   boot_messages_file, tr, tests, reports, runner_script>>

\* `if boot_success and boot_data:` the write of boot_messages.log
StoreSave ==
    /\ pc = "st_save"
    /\ IF EvidenceWorthSaving(cap.found, cap.text)
       THEN /\ boot_messages_file' = TRUE
            /\ boot_log' = SavedLog(cap.text)
            /\ events' = Append(events, "save")
       ELSE UNCHANGED <<boot_messages_file, boot_log, events>>
    /\ pc' = "st_load"
    /\ UNCHANGED <<now, envVars, mainVars, flashVars, ser_open, tool_running,
                   process_exit, port, reset_success, baud_idx, cap, tr, tests,
                   reports, runner_script>>

\* run_test_runner reads boot_messages.log
StoreLoad ==
    /\ pc = "st_load"
    /\ \E readable \in BOOLEAN :
         LET data == LoadedData(boot_log, boot_messages_file, readable)
         IN tr' = [NoTr EXCEPT !.boot_messages_data = data,
                               !.data_origin = IF data.some THEN boot_log.origin ELSE "none"]
    /\ pc' = "st_capture"
    /\ UNCHANGED <<now, envVars, mainVars, flashVars, ser_open, tool_running, events,
                   process_exit, port, reset_success, baud_idx, boot_log, cap,
                   boot_messages_file, tests, reports, runner_script>>

NextStore == StoreCapture \/ StoreSave \/ StoreLoad

SpecStore == InitStore /\ [][NextStore]_vars

\* the evidence of the last capture was saved and has been loaded
SavedAndLoaded ==
    /\ pc = "st_capture"
    /\ cap.returned
    /\ cap.found /\ Len(cap.text) > 0
    /\ tr.boot_messages_data.some

\* C27: round trip of the boot evidence store: for every byte sequence saved
\* as the run's evidence, loading the evidence file returns exactly that byte
\* sequence, with nothing added, dropped or altered.
C27_RoundTrip ==
    SavedAndLoaded => tr.boot_messages_data.val = cap.raw

\* a captured token followed by a byte that is not text comes back as the
\* token followed by a line end
C27_Witness ==
    /\ SavedAndLoaded
    /\ cap.raw = <<"rst:", "bad">>
    /\ tr.boot_messages_data.val = <<"rst:", "\n">>

\* C28: saving evidence truncates and rewrites the evidence file: after a
\* second save with different bytes the file holds the second save's content
\* only (what was passed to it and the line end written after it) and nothing
\* of the first.
C28_SaveReplaces ==
    (pc = "st_load" /\ cap.found /\ Len(cap.text) > 0)
        => /\ boot_log.exists
           /\ boot_log.data = cap.text \o <<"\n">>
           /\ Len(boot_log.data) = Len(cap.text) + 1

\* a second save of different bytes: the file had the first save's content,
\* which was loaded, and now holds the second's
C28_Witness ==
    /\ pc = "st_load"
    /\ Count(events, "save") = 2
    /\ tr.boot_messages_data = Some(<<"rst:", "junk", "\n">>)
    /\ cap.text = <<"junk">>
    /\ boot_log.data = <<"junk", "\n">>

\* -------------------------------------------- test_uart_read_directly, by itself
\* time.sleep(0.1) after the open, and at the end of each turn of the loop
StabilizeTicks == Stabilize * TicksPerTenth
PollTicks == 1 * TicksPerTenth

CaptureBudgets == 0 .. MaxBudget

InitCapture ==
    /\ pc = "cp_open"
    /\ env_port = <<>>
    /\ existing = {"/dev/ttyUSB0"}
    /\ port = "/dev/ttyUSB0"
    /\ ser_open = 0
    /\ boot_log = NoFile
    /\ \E b \in CaptureBudgets : cap = [NoCap EXCEPT !.timeout = b]
    /\ boot_messages_file = FALSE
    /\ tr = NoTr
    /\ NothingStarted

\* `return success, data_str`, or the return of an except block
CpReturns(frame, found, text) ==
    /\ cap' = [frame EXCEPT !.found = found, !.text = text, !.returned = TRUE]
    /\ pc' = "cp_returned"

\* serial.Serial(...); time.sleep(0.1); the buffer resets; start_time = time.time()
CpOpen ==
    /\ pc = "cp_open"
    /\ \E outcome \in {"opened", "import_error", "open_error", "reset_error"} :
         CASE outcome = "opened" ->
                /\ ser_open' = ser_open + 1
                /\ now' = now + StabilizeTicks
                /\ cap' = [cap EXCEPT !.start_time = now + StabilizeTicks]
                /\ pc' = "cp_check"
           [] outcome = "reset_error" ->
                /\ ser_open' = ser_open + 1
                /\ now' = now + StabilizeTicks
                /\ CpReturns(cap, FALSE, <<"junk">>)
           [] outcome = "import_error" ->
                /\ UNCHANGED <<ser_open, now>>
                /\ CpReturns(cap, FALSE, <<>>)
           [] OTHER ->
                /\ UNCHANGED <<ser_open, now>>
                /\ CpReturns(cap, FALSE, <<"junk">>)
    /\ UNCHANGED <<envVars, mainVars, flashVars, tool_running, events, process_exit,
                   port, reset_success, baud_idx, boot_log, boot_messages_file,
                   tr, tests, reports, runner_script>>

\* the loop goes on until one more turn would not start before the budget is over
BudgetLeft_Inclusive(elapsed, timeout) == elapsed <= timeout

\* while time.time() - start_time < timeout
BudgetLeft(elapsed, timeout) == elapsed < timeout

\* the test of the while loop
CpCheck ==
    /\ pc = "cp_check"
    /\ pc' = IF BudgetLeft(now - cap.start_time, cap.timeout) THEN "cp_poll" ELSE "cp_close"
    /\ UNCHANGED <<now, envVars, mainVars, flashVars, ser_open, tool_running, events,
                   process_exit, port, reset_success, baud_idx, boot_log, cap,
                   boot_messages_file, tr, tests, reports, runner_script>>

\* one turn of the loop: in_waiting, the read of a chunk if there is one, sleep(0.1)
CpPoll ==
    /\ pc = "cp_poll"
    /\ \/ /\ now' = now + PollTicks
          /\ cap' = cap
          /\ pc' = "cp_check"
       \/ \E latency \in 0 .. MaxReadLatency :
            /\ now' = now + latency + PollTicks
            /\ cap' = [cap EXCEPT !.raw = Append(cap.raw, "junk")]
            /\ pc' = "cp_check"
       \/ \E latency \in 0 .. MaxReadLatency :
            /\ now' = now + latency
            /\ CpReturns(cap, FALSE, <<"junk">>)
    /\ UNCHANGED <<envVars, mainVars, flashVars, ser_open, tool_running, events,
                   process_exit, port, reset_success, baud_idx, boot_log,
                   boot_messages_file, tr, tests, reports, runner_script>>

\* ser.close(); data_str = data.decode(...); success = len(data) > 0; return
CpClose ==
    /\ pc = "cp_close"
    /\ ser_open' = ser_open - 1
    /\ CpReturns(cap, Len(cap.raw) > 0, Decode(cap.raw))
    /\ UNCHANGED <<now, envVars, mainVars, flashVars, tool_running, events,
                   process_exit, port, reset_success, baud_idx, boot_log,
                   boot_messages_file, tr, tests, reports, runner_script>>

NextCapture == CpOpen \/ CpCheck \/ CpPoll \/ CpClose

\* The process is the only thread of control: its next step is always taken.
SpecCapture == InitCapture /\ [][NextCapture]_vars /\ WF_vars(NextCapture)

\* C29 as stated: the call blocks no longer than the budget plus the latency
\* of one read of a chunk.
C29_Bound_AsStated ==
    pc = "cp_returned" => now - cap.entered <= cap.timeout + MaxReadLatency

\* since the call, the capture has taken no longer than the settling delay,
\* the budget and one turn of the loop (one read of a chunk and the poll sleep)
CaptureWithinBound ==
    /\ now - cap.entered <= StabilizeTicks + cap.timeout + MaxReadLatency + PollTicks
    /\ pc = "cp_poll" => now - cap.start_time < cap.timeout
    /\ pc = "cp_close" => now - cap.start_time >= cap.timeout

\* C29: for every budget b >= 0 the capture terminates: its polling loop is
\* left at the first test after b has elapsed, whether or not bytes keep
\* arriving, and the call returns within the 0.1 s settling delay, b, and one
\* turn of the loop (one read of a chunk and the 0.1 s poll sleep).
C29_CaptureTerminates ==
    [](CaptureWithinBound) /\ <>(pc = "cp_returned")

\* bytes arrived in every turn and the call returned later than the budget
\* plus the latency of one read
C29_Witness ==
    /\ pc = "cp_returned"
    /\ cap.timeout = MaxBudget
    /\ Len(cap.raw) >= 2
    /\ cap.found
    /\ now - cap.entered > cap.timeout + MaxReadLatency

\* the place of an event of the run in the order of the orchestrator
EventRank(e) ==
    CASE e = "flash" -> 1
      [] e = "boot_wait" -> 2
      [] e = "explicit_reset" -> 3
      [] e = "second_wait" -> 4
      [] e = "fresh_reset" -> 5
      [] e = "capture" -> 6
      [] e = "save" -> 7
      [] e = "test" -> 8
      [] e = "report" -> 9

\* C30: in every run the events of the orchestrator occur in the order flash,
\* boot wait, optional explicit reset, optional fresh reset with capture, test
\* invocation, report; the flasher, the capture and the test invoker are each
\* called at most once, the capture only with a fresh reset, and the test
\* invoker only after a successful flash.
C30_EventOrder ==
    /\ \A i, j \in DOMAIN events : i < j => EventRank(events[i]) < EventRank(events[j])
    /\ \A i \in DOMAIN events :
         /\ events[i] = "capture" => (i > 1 /\ events[i - 1] = "fresh_reset")
         /\ events[i] = "fresh_reset" => (i > 2 /\ events[1] = "flash")
         /\ events[i] = "explicit_reset" => (i = 3 /\ events[2] = "boot_wait")
         /\ events[i] = "boot_wait" => (i = 2 /\ events[1] = "flash" /\ flash_end_time # -1)
         /\ events[i] = "test"
              => (events[1] = "flash" /\ events[2] = "boot_wait" /\ flash_end_time # -1)
    /\ (pc = "done" /\ flash_end_time # -1)
         => /\ events[Len(events)] = "report"
            /\ events[Len(events) - 1] = "test"

\* a run with every optional step: explicit reset, fresh reset, capture, save
C30_Witness ==
    /\ pc = "done"
    /\ events = <<"flash", "boot_wait", "explicit_reset", "second_wait", "fresh_reset",
                  "capture", "save", "test", "report">>

\* C31: after every successful flash the fixed boot wait is taken
\* unconditionally, and no serial access (explicit reset, flush, capture, test
\* procedure) happens between the success of the flash and the end of the wait.
C31_BootWaitFirst ==
    /\ pc = "boot_wait"
         => /\ flash_end_time = now
            /\ events = <<"flash">>
            /\ ser_open = 0 /\ ~tool_running
            /\ cap = NoCap /\ tr = NoTr
    /\ (flash_end_time # -1 /\ pc # "boot_wait")
         => /\ Len(events) >= 2
            /\ events[2] = "boot_wait"
            /\ now - flash_end_time >= BootWait

\* the explicit reset starts exactly when the boot wait is over
C31_Witness ==
    /\ pc = "xreset_run"
    /\ tool_running
    /\ events = <<"flash", "boot_wait", "explicit_reset">>
    /\ now = flash_end_time + BootWait

\* the places of the stale path from the fresh reset to the return of the capture
FreshWindow == pc \in {"freset_run", "cap_open", "cap_read", "cap_close", "save"}

\* in the stale path the capture directly follows the fresh reset and the test
\* comes only after the capture has returned
CaptureRightAfterReset ==
    /\ \A i \in DOMAIN events :
         /\ events[i] = "fresh_reset" => (i = Len(events) \/ events[i + 1] = "capture")
         /\ events[i] = "capture" => (i > 1 /\ events[i - 1] = "fresh_reset")
         /\ (events[i] = "test" /\ Contains(events, "fresh_reset"))
              => \E j \in 1 .. i - 1 : events[j] = "capture"
    /\ (FreshWindow /\ pc # "freset_run") => events[Len(events)] = "capture" \/ pc = "cap_open"
    /\ pc \in {"test_enter", "test_run", "test_exec", "test_return"} => cap = NoCap

\* C32: in the stale path the previous evidence file is discarded before the
\* fresh reset, and no wait step occurs between the fresh reset and the
\* capture: the order is always discard evidence, fresh reset, capture, and
\* the test procedure is invoked only after the capture has returned.
C32_DiscardResetCapture ==
    /\ (FreshWindow /\ pc # "save") => ~boot_log.exists
    /\ CaptureRightAfterReset

\* the fresh reset runs while the file of a previous run is still there
C32_Witness ==
    /\ pc = "freset_run"
    /\ tool_running
    /\ boot_log.exists
    /\ boot_log.origin = "prev"

\* the places of run_test_runner
InTestInvoker == pc \in {"test_enter", "test_run", "test_exec", "test_return"}

\* the step of main after the capture has returned: evidence is persisted and
\* handed on exactly when the capture read something
PersistedIffBytes ==
    (pc = "save" /\ pc' = "test_enter")
        => ((boot_messages_file' /\ boot_log'.exists /\ boot_log'.origin = "cur")
                <=> Len(cap.raw) > 0)

\* without fresh reset and capture the test invoker gets no evidence path and
\* no evidence file exists
NoCaptureNoEvidence ==
    (InTestInvoker /\ ~Contains(events, "capture"))
        => (~boot_messages_file /\ ~boot_log.exists)

\* C33: boot evidence is persisted and handed to the test invoker iff the
\* staleness check triggered a fresh reset and the capture that followed
\* returned non-empty bytes; in every other case (not stale, no port, empty
\* capture) the test invoker is invoked with no evidence path and no evidence
\* file exists for the run.
C33_EvidenceIffFreshCapture ==
    /\ [][PersistedIffBytes]_vars
    /\ [](NoCaptureNoEvidence)
    /\ []((InTestInvoker /\ ~boot_messages_file) => ~boot_log.exists)

\* the test invoker is entered without fresh reset, and the evidence file of
\* a previous run exists
C33_Witness ==
    /\ pc = "test_enter"
    /\ ~Contains(events, "fresh_reset")
    /\ ~boot_messages_file
    /\ boot_log.exists
    /\ boot_log.origin = "prev"

\* the places of the explicit reset step of main
ResetStepPcs == {"reset_q", "xreset_run", "second_wait", "flush_open", "flush_reset"}

\* One step of the explicit reset step: no port, a reset that ran and failed,
\* or a flush that failed lead on towards step 2; the second wait follows only
\* a successful reset, the flush only the second wait; the baud rates are
\* taken in their order and the first flush that succeeds ends the loop.
ResetStepIsBestEffort ==
    /\ (pc = "reset_q" /\ pc' # pc /\ port' = "") => pc' = "step2"
    /\ (pc = "reset_q" /\ pc' # pc /\ port' # "") => (pc' = "xreset_run" /\ tool_running')
    /\ (pc = "xreset_run" /\ now' > now)
         => pc' = (IF reset_success' THEN "second_wait" ELSE "step2")
    /\ (pc \in {"flush_open", "flush_reset"} /\ pc' # pc)
         => \/ pc' = "step2"
            \/ pc' = "flush_reset" /\ pc = "flush_open" /\ baud_idx' = baud_idx
            \/ pc' = "flush_open" /\ baud_idx' = baud_idx + 1
    /\ (pc = "flush_reset" /\ ser_open' < ser_open) => pc' = "step2"
    /\ (pc = "flush_open" /\ pc' = "flush_open") => baud_idx' = baud_idx + 1
    /\ (pc' = "second_wait" /\ pc # "second_wait") => (pc = "xreset_run" /\ reset_success')
    /\ (pc' = "flush_open" /\ pc \notin {"flush_open", "flush_reset"})
         => (pc = "second_wait" /\ baud_idx' = 1 /\ now' = now + SecondWait)
    /\ (pc \in ResetStepPcs /\ pc' = "step2") => (exit_code' = 0 /\ tests' = <<>>)

\* C34: the explicit reset step is best-effort: a port that cannot be located,
\* a reset that fails, or a flush that fails at every baud rate never keeps
\* the run from going on to the tests; the second delay and the flush are
\* performed only after a successful explicit reset, and the flush tries the
\* baud rates in their fixed order and stops at the first that succeeds.
C34_ResetIsBestEffort ==
    /\ [][ResetStepIsBestEffort]_vars
    /\ [](pc \in {"flush_open", "flush_reset"}
            => (baud_idx \in DOMAIN FlushBauds /\ reset_success
                /\ events[Len(events)] = "second_wait"))
    /\ [](pc \in ResetStepPcs => exit_code = 0)

\* the reset succeeded, the flush failed at both baud rates, and the test
\* invoker is entered all the same
C34_Witness ==
    /\ pc = "test_enter"
    /\ reset_success
    /\ ser_open = 2
    /\ Contains(events, "second_wait")
    /\ ~Contains(events, "fresh_reset")
    /\ exit_code = 0

\* ---- C35 ----------------------------------------------------------------

\* the report written under this file name, when it has been written
HasReport(file) == \E i \in DOMAIN reports : reports[i].file = file
ReportOf(file) == reports[CHOOSE i \in DOMAIN reports : reports[i].file = file]

\* the number of FAIL outcomes of the run, counted one outcome at a time
RECURSIVE FailCount(_)
FailCount(ts) ==
    IF ts = <<>> THEN 0
    ELSE (IF Head(ts).status = "FAIL" THEN 1 ELSE 0) + FailCount(Tail(ts))

\* C35: the reports of a run agree with each other.  The status of the summary
\* and the status of the execution metadata are the same, PASS going with exit
\* code 0 and FAIL with exit code 1, and the process leaves with that exit
\* code; the JUnit report has one test case for each outcome of the summary,
\* in the same order and under the same name, marked failed (with the
\* outcome's failure text) exactly when the outcome is FAIL; and the failure
\* count of the JUnit report is the number of FAIL outcomes.
C35_RunResultConsistent ==
    /\ (HasReport("ats-summary.json") /\ HasReport("meta.yaml"))
         => /\ ReportOf("ats-summary.json").status = ReportOf("meta.yaml").status
            /\ ReportOf("meta.yaml").exit_code \in {0, 1}
            /\ ReportOf("meta.yaml").status = "PASS" <=> ReportOf("meta.yaml").exit_code = 0
            /\ ReportOf("meta.yaml").status = "FAIL" <=> ReportOf("meta.yaml").exit_code = 1
            /\ pc = "done" => process_exit = ReportOf("meta.yaml").exit_code
    /\ (HasReport("ats-summary.json") /\ HasReport("junit.xml"))
         => LET sum == ReportOf("ats-summary.json").tests
                jun == ReportOf("junit.xml")
            IN  /\ jun.total = Len(sum)
                /\ Len(jun.testcases) = Len(sum)
                /\ \A i \in DOMAIN sum :
                      /\ jun.testcases[i].name = sum[i].name
                      /\ jun.testcases[i].failed <=> sum[i].status = "FAIL"
                      /\ jun.testcases[i].failed => jun.testcases[i].message = sum[i].failure
                /\ jun.failures = FailCount(sum)
    /\ pc = "done" => Len(reports) = 3

\* a run has ended with status 1 although none of its outcomes is a FAIL: the
\* flash failed, the single outcome is a SKIP and the JUnit report counts no
\* failure
C35_Witness ==
    /\ Reported
    /\ process_exit = 1
    /\ ReportOf("ats-summary.json").status = "FAIL"
    /\ ReportOf("ats-summary.json").tests = <<Outcome("SKIP", "Flash failed")>>
    /\ ReportOf("junit.xml").failures = 0
    /\ ReportOf("junit.xml").total = 1

\* ---- C36 ----------------------------------------------------------------

\* the step of the stale path that writes boot_messages.log
EvidenceIsPersisted ==
    /\ pc = "save"
    /\ boot_messages_file'
    /\ boot_log'.exists /\ boot_log'.origin = "cur"

\* C36: in the stale path the boot evidence is persisted only when the fresh
\* reset that precedes the capture succeeded; after a failed fresh reset the
\* bytes read are not stored and not given to the test invoker.
C36_EvidenceOnlyAfterGoodReset ==
    [][EvidenceIsPersisted => cap.reset_ok]_vars

\* the capture that followed a failed fresh reset has returned bytes, and its
\* result is about to be looked at
C36_Witness ==
    /\ pc = "save"
    /\ ~cap.reset_ok
    /\ EvidenceWorthSaving(cap.found, cap.text)

\* ---- C37 ----------------------------------------------------------------

\* try_reset_serial_port has returned to flash_firmware
RepairReturned == pc = "fl_after_recovery" /\ rec.result # "none"

\* C37: try_reset_serial_port never returns with the driver left unbound by
\* its own action: whenever it returns, with True or with False, after having
\* written to unbind, it has written the same device to bind afterwards.
C37_NeverLeftUnbound ==
    RepairReturned
        => \A i \in DOMAIN rec.writes :
              rec.writes[i].file = "unbind"
                  => \E j \in DOMAIN rec.writes :
                        /\ j > i
                        /\ rec.writes[j].file = "bind"
                        /\ rec.writes[j].id = rec.writes[i].id

\* the repair has returned False after the unbind write alone
C37_Witness ==
    /\ RepairReturned
    /\ rec.result = "false"
    /\ Len(rec.writes) = 1
    /\ rec.writes[1].file = "unbind"

====
